---- MODULE Spec2Model ----
(***************************************************************************)
(* GridSlice Pro: the grid boundaries, the drag protocol that edits them,  *)
(* and the slicing pass that turns them into tiles (src/App.tsx).          *)
(*                                                                         *)
(* JavaScript numbers are modelled as exact rationals <<n, d>> (d > 0, in  *)
(* lowest terms); indices are 0-based as in the source, sequences 1-based. *)
(***************************************************************************)
EXTENDS Integers, Sequences, FiniteSets

VARIABLES
    image,               \* App state: Null or Some([w, h]), the decoded image
    gridConfig,          \* App state: [rows, cols]
    optimizeResolution,  \* App state
    quality,             \* App state: the encoder quality, a rational
    outputFormat,        \* App state: "webp", "jpeg" or "png"
    gridLines,           \* App state: [horizontal, vertical], sequences of Boundary
    slices,              \* App state: the published SliceResult list
    isSlicing,           \* App state
    settingsDirty,       \* App state
    dragging,            \* GridEditor state: Null or Some([type, boundaryIdx, side])
    listeners,           \* the window listeners GridEditor has registered
    passes,              \* the handleSlice invocations suspended on a promise
    publishedBy,         \* history: Some(pass) that published the current slices
    previous,            \* history: Some(pass) that published the list it replaced
    isZipping,           \* SlicePreview state
    zips,                \* the downloadAll invocations suspended on generateAsync
    lastExport,          \* history: Some(what the last export handed to the browser)
    started,             \* slicing passes started so far
    upsets               \* events so far that count against MaxUpsets

vars == <<image, gridConfig, optimizeResolution, quality, outputFormat, gridLines,
          slices, isSlicing, settingsDirty, dragging, listeners, passes, publishedBy,
          previous, isZipping, zips, lastExport, started, upsets>>

(***************************************************************************)
(* Bounds of the exploration.                                              *)
(***************************************************************************)
\* events of one behaviour that depart from the plain session: pointer-moves,
\* user events handled while a pass is suspended, encodes that yield no blob
MaxUpsets == 1
\* slicing passes started in one behaviour
MaxPasses == 1
\* slicing passes started in one behaviour of the session without drags
MaxRepeats == 2
\* largest rows / cols count of the boundary-function specification
MaxCount == 5
\* presets with more cells than this are left out of the editing session
MaxCells == 9

(***************************************************************************)
(* Numbers.                                                                *)
(***************************************************************************)
Abs(n) == IF n < 0 THEN -n ELSE n

RECURSIVE GCD(_, _)
GCD(a, b) == IF b = 0 THEN a ELSE GCD(b, a % b)

\* the rational n/d in lowest terms with a positive denominator
Norm(n, d) ==
    LET g == GCD(Abs(n), Abs(d))
        s == IF d < 0 THEN -1 ELSE 1
    IN  <<(s * n) \div g, (s * d) \div g>>

R(n) == <<n, 1>>
RAdd(a, b) == Norm(a[1] * b[2] + b[1] * a[2], a[2] * b[2])
RSub(a, b) == Norm(a[1] * b[2] - b[1] * a[2], a[2] * b[2])
\* cross-cancelled first, so that the products stay small
RMul(a, b) ==
    LET x == Norm(a[1], b[2])
        y == Norm(b[1], a[2])
    IN  Norm(x[1] * y[1], x[2] * y[2])
RDiv(a, b) == RMul(a, <<b[2], b[1]>>)
RLe(a, b) == a[1] * b[2] <= b[1] * a[2]
RLt(a, b) == a[1] * b[2] < b[1] * a[2]
RMax(a, b) == IF RLe(a, b) THEN b ELSE a
RMin(a, b) == IF RLe(a, b) THEN a ELSE b

(***************************************************************************)
(* Default boundaries (initializeGridLines).                               *)
(***************************************************************************)
gutterHalfWidth == 1

\* BoundaryAt with the last-boundary test off by one (i === numBoundaries)
BoundaryAtLastMissed(i, count) ==
    LET pos == RMul(R(i), RDiv(R(100), R(count)))
    IN  IF i = 0 THEN [start |-> R(0), end |-> <<3, 2>>]
        ELSE [start |-> RSub(pos, R(gutterHalfWidth)),
              end |-> RAdd(pos, R(gutterHalfWidth))]

\* the boundary the loop pushes for index i (0-based) of numBoundaries
BoundaryAt(i, count) ==
    LET numBoundaries == count + 1
        step == RDiv(R(100), R(count))
        pos == RMul(R(i), step)
    IN  IF i = 0 THEN [start |-> R(0), end |-> <<3, 2>>]
        ELSE IF i = numBoundaries - 1 THEN [start |-> <<197, 2>>, end |-> R(100)]
        ELSE [start |-> RSub(pos, R(gutterHalfWidth)),
              end |-> RAdd(pos, R(gutterHalfWidth))]

\* generateBoundaries with numBoundaries = count
generateBoundariesShort(count) == [k \in 1..count |-> BoundaryAt(k - 1, count)]

generateBoundaries(count) == [k \in 1..(count + 1) |-> BoundaryAt(k - 1, count)]

\* initializeGridLines taking both axes from the rows count
initializeGridLinesSquare(rows, cols) ==
    [horizontal |-> generateBoundaries(rows), vertical |-> generateBoundaries(rows)]

initializeGridLines(rows, cols) ==
    [horizontal |-> generateBoundaries(rows), vertical |-> generateBoundaries(cols)]

(***************************************************************************)
(* Slice geometry and target size (handleSlice, one cell).                 *)
(***************************************************************************)
Null == <<>>
Some(x) == <<x>>

numRowsOf(gl) == Len(gl.horizontal) - 1
numColsOf(gl) == Len(gl.vertical) - 1

\* hRanges taking each band from the boundary's start: the gutter included
hRangesWithGutter(gl) ==
    [k \in 1..numRowsOf(gl) |-> <<gl.horizontal[k].start, gl.horizontal[k + 1].start>>]

\* the visible bands: from one boundary's end to the next boundary's start
hRanges(gl) ==
    [k \in 1..numRowsOf(gl) |-> <<gl.horizontal[k].end, gl.horizontal[k + 1].start>>]
\* vRanges taking each band from the boundary's start: the gutter included
vRangesWithGutter(gl) ==
    [k \in 1..numColsOf(gl) |-> <<gl.vertical[k].start, gl.vertical[k + 1].start>>]

vRanges(gl) ==
    [k \in 1..numColsOf(gl) |-> <<gl.vertical[k].end, gl.vertical[k + 1].start>>]

\* percentage of a dimension, in pixels
ToPixels(pct, dim) == RMul(RDiv(pct, R(100)), R(dim))

\* crop rectangle of cell (r, c), r and c 0-based
CropRect(gl, img, r, c) ==
    LET xStartOrig == ToPixels(vRanges(gl)[c + 1][1], img.w)
        xEndOrig == ToPixels(vRanges(gl)[c + 1][2], img.w)
        yStartOrig == ToPixels(hRanges(gl)[r + 1][1], img.h)
        yEndOrig == ToPixels(hRanges(gl)[r + 1][2], img.h)
    IN  [row |-> r, col |-> c, x |-> xStartOrig, y |-> yStartOrig,
         w |-> RMax(R(0), RSub(xEndOrig, xStartOrig)),
         h |-> RMax(R(0), RSub(yEndOrig, yStartOrig))]

\* Degenerate that skips a cell only when both extents are <= 0
DegenerateBoth(rect) == RLe(rect.w, R(0)) /\ RLe(rect.h, R(0))

\* the test that skips a cell
Degenerate(rect) == RLe(rect.w, R(0)) \/ RLe(rect.h, R(0))

\* maxDimOf with the two caps exchanged
maxDimOfSwapped(optimize) == IF optimize THEN 4096 ELSE 1080

maxDimOf(optimize) == IF optimize THEN 1080 ELSE 4096

\* Ratio with the larger of the two quotients
RatioMax(w, h, maxDim) == RMax(RDiv(R(maxDim), w), RDiv(R(maxDim), h))

\* the downscaling ratio of an over-sized crop
Ratio(w, h, maxDim) == RMin(RDiv(R(maxDim), w), RDiv(R(maxDim), h))

\* TargetSize capping each dimension on its own
TargetSizeCapEach(w, h, optimize) ==
    [w |-> RMin(w, R(maxDimOf(optimize))), h |-> RMin(h, R(maxDimOf(optimize)))]

\* TargetSize scaling every crop to fit maxDim, small ones too
TargetSizeFit(w, h, optimize) ==
    [w |-> RMul(w, Ratio(w, h, maxDimOf(optimize))),
     h |-> RMul(h, Ratio(w, h, maxDimOf(optimize)))]

\* target size of a crop of size w x h
TargetSize(w, h, optimize) ==
    LET maxDim == maxDimOf(optimize)
    IN  IF RLt(R(maxDim), w) \/ RLt(R(maxDim), h)
        THEN [w |-> RMul(w, Ratio(w, h, maxDim)), h |-> RMul(h, Ratio(w, h, maxDim))]
        ELSE [w |-> w, h |-> h]

\* what the canvas is asked to draw and encode for a crop: the arguments of
\* drawImage; the encoder is taken to be a function of them
Payload(img, rect, optimize, mimeType, qVal) ==
    [image |-> img, sx |-> rect.x, sy |-> rect.y, sw |-> rect.w, sh |-> rect.h,
     tw |-> TargetSize(rect.w, rect.h, optimize).w,
     th |-> TargetSize(rect.w, rect.h, optimize).h,
     mimeType |-> mimeType, qVal |-> qVal]

\* the type argument of toBlob
mimeTypeOf(format) == <<"image", format>>

\* the quality argument of toBlob: undefined for png
qValOf(format, q) == IF format = "png" THEN Null ELSE Some(q)

(***************************************************************************)
(* The slicing pass.  A pass record holds the values the handleSlice       *)
(* closure captured and the locals of its loop; pc names the promise the   *)
(* pass is suspended on.                                                   *)
(***************************************************************************)
\* NewPass that goes on numbering where the published list ends
NewPassContinuing(img, gl, optimize, format, q) ==
    [image |-> img, gridLines |-> gl, optimizeResolution |-> optimize,
     outputFormat |-> format, quality |-> q,
     r |-> 0, c |-> 0, index |-> Len(slices), newSlices |-> <<>>, pc |-> "loop",
     rects |-> <<>>, nulls |-> 0]

NewPass(img, gl, optimize, format, q) ==
    [image |-> img, gridLines |-> gl, optimizeResolution |-> optimize,
     outputFormat |-> format, quality |-> q,
     r |-> 0, c |-> 0, index |-> 0, newSlices |-> <<>>, pc |-> "loop",
     rects |-> <<>>, nulls |-> 0]

\* SkipCell that also advances the index
SkipCellCounting(p) == [p EXCEPT !.index = p.index + 1, !.c = p.c + 1]

\* the `continue` of a degenerate cell: on to the next column
SkipCell(p) == [p EXCEPT !.c = p.c + 1]

\* the end of an iteration: index++ and on to the next column
EndIteration(p) == [p EXCEPT !.index = p.index + 1, !.c = p.c + 1]

\* RunLoop that takes the crop of the next cell of the row as well before it
\* suspends on toBlob
RECURSIVE RunLoopNoAwait(_)
RunLoopNoAwait(p) ==
    IF p.r >= numRowsOf(p.gridLines) THEN [p EXCEPT !.pc = "done"]
    ELSE IF p.c >= numColsOf(p.gridLines)
    THEN RunLoopNoAwait([p EXCEPT !.r = p.r + 1, !.c = 0])
    ELSE LET rect == CropRect(p.gridLines, p.image, p.r, p.c)
             q == [p EXCEPT !.rects = Append(p.rects, rect)]
         IN  IF Degenerate(rect) THEN RunLoopNoAwait(SkipCell(q))
             ELSE IF p.c + 1 < numColsOf(p.gridLines)
             THEN [q EXCEPT !.pc = "toBlob",
                            !.rects = Append(q.rects,
                                CropRect(p.gridLines, p.image, p.r, p.c + 1))]
             ELSE [q EXCEPT !.pc = "toBlob"]

\* runs the loops from (p.r, p.c) until the pass suspends on toBlob or the
\* loops end; rects records the crop rectangle computed for every cell
RECURSIVE RunLoop(_)
RunLoop(p) ==
    IF p.r >= numRowsOf(p.gridLines) THEN [p EXCEPT !.pc = "done"]
    ELSE IF p.c >= numColsOf(p.gridLines)
    THEN RunLoop([p EXCEPT !.r = p.r + 1, !.c = 0])
    ELSE LET rect == CropRect(p.gridLines, p.image, p.r, p.c)
             q == [p EXCEPT !.rects = Append(p.rects, rect)]
         IN  IF Degenerate(rect) THEN RunLoop(SkipCell(q))
             ELSE [q EXCEPT !.pc = "toBlob"]

\* TileOf with row and col exchanged
TileOfTransposed(p) ==
    [dataUrl |-> Payload(p.image, p.rects[Len(p.rects)], p.optimizeResolution,
                        mimeTypeOf(p.outputFormat), qValOf(p.outputFormat, p.quality)),
     index |-> p.index, row |-> p.c, col |-> p.r]

\* TileOf that reads the resolution setting of the App state at the time the
\* tile is pushed
TileOfCurrent(p) ==
    [dataUrl |-> Payload(p.image, p.rects[Len(p.rects)], optimizeResolution,
                        mimeTypeOf(p.outputFormat), qValOf(p.outputFormat, p.quality)),
     index |-> p.index, row |-> p.r, col |-> p.c]

\* the tile pushed for the cell the pass is suspended on
TileOf(p) ==
    [dataUrl |-> Payload(p.image, p.rects[Len(p.rects)], p.optimizeResolution,
                        mimeTypeOf(p.outputFormat), qValOf(p.outputFormat, p.quality)),
     index |-> p.index, row |-> p.r, col |-> p.c]

(***************************************************************************)
(* Inputs of the editing session.                                          *)
(***************************************************************************)
\* the three preset buttons
AllPresets ==
    {[rows |-> 3, cols |-> 3], [rows |-> 6, cols |-> 6], [rows |-> 1, cols |-> 5]}
Presets == {g \in AllPresets : g.rows * g.cols <= MaxCells}

\* natural sizes of the images that are uploaded
Images == {[w |-> 1000, h |-> 200], [w |-> 5000, h |-> 5000]}

\* the output format buttons and the slider positions that are tried
Formats == {"webp", "jpeg", "png"}
Qualities == {<<3, 10>>, <<3, 5>>}

\* bounding boxes of the editing surface and pointer coordinates, in CSS pixels
Rects == {[left |-> 10, top |-> 20, width |-> 200, height |-> 100]}
ClientXs == {0, 110, 300}
ClientYs == {0, 45, 200}

(***************************************************************************)
(* State after construction (useState initial values).                     *)
(***************************************************************************)
Init ==
    /\ image = Null
    /\ gridConfig = [rows |-> 3, cols |-> 3]
    /\ optimizeResolution = TRUE
    /\ quality = <<3, 5>>
    /\ outputFormat = "webp"
    /\ gridLines = [horizontal |-> <<>>, vertical |-> <<>>]
    /\ slices = <<>>
    /\ isSlicing = FALSE
    /\ settingsDirty = FALSE
    /\ dragging = Null
    /\ listeners = {}
    /\ passes = <<>>
    /\ publishedBy = Null
    /\ previous = Null
    /\ isZipping = FALSE
    /\ zips = <<>>
    /\ lastExport = Null
    /\ started = 0
    /\ upsets = 0

\* a user event is handled; it counts against MaxUpsets when it is a
\* pointer-move, a change of format or quality, an export request that is
\* ignored, or when a pass is suspended
UserEvent(isMove) ==
    LET cost == IF isMove \/ passes # <<>> THEN 1 ELSE 0
    IN  /\ upsets + cost <= MaxUpsets
        /\ upsets' = upsets + cost

(***************************************************************************)
(* App: image, presets, settings.                                          *)
(***************************************************************************)
\* the results section leaves the page (slices.length > 0 no longer holds):
\* SlicePreview unmounts, its state is dropped, and the exports it started
\* go on without a component to update
SlicePreviewUnmounted ==
    /\ isZipping' = FALSE
    /\ zips' = [i \in DOMAIN zips |-> [zips[i] EXCEPT !.mounted = FALSE]]

\* img.onload of handleImageUpload, with the [image, gridConfig] effect it
\* triggers.  The file input is offered while no image is shown, but a load
\* requested then may complete at any later time.
ImageLoaded(img) ==
    /\ UserEvent(FALSE)
    /\ image' = Some(img)
    /\ gridLines' = initializeGridLines(gridConfig.rows, gridConfig.cols)
    /\ slices' = <<>>
    /\ publishedBy' = Null
    /\ previous' = Null
    /\ SlicePreviewUnmounted
    /\ settingsDirty' = FALSE
    /\ UNCHANGED <<gridConfig, optimizeResolution, quality, outputFormat, isSlicing, dragging, listeners, passes, started, lastExport>>

\* the Reset button; GridEditor unmounts: its state is dropped and the
\* cleanup of its listener effect runs
Reset ==
    /\ UserEvent(FALSE)
    /\ image # Null
    /\ image' = Null
    /\ slices' = <<>>
    /\ publishedBy' = Null
    /\ previous' = Null
    /\ SlicePreviewUnmounted
    /\ dragging' = Null
    /\ listeners' = {}
    /\ UNCHANGED <<gridConfig, optimizeResolution, quality, outputFormat, gridLines, isSlicing,
                   settingsDirty, passes, started, lastExport>>

\* a preset button, with the two effects that depend on gridConfig: the dirty
\* effect runs first, the reset effect second
SetGridConfig(g) ==
    /\ UserEvent(FALSE)
    /\ image # Null
    /\ gridConfig' = g
    /\ gridLines' = initializeGridLines(g.rows, g.cols)
    /\ slices' = <<>>
    /\ publishedBy' = Null
    /\ previous' = Null
    /\ SlicePreviewUnmounted
    /\ settingsDirty' = FALSE
    /\ UNCHANGED <<image, optimizeResolution, quality, outputFormat, isSlicing, dragging, listeners, passes, started, lastExport>>

\* the dirty effect: it runs when one of quality, optimizeResolution,
\* gridConfig, outputFormat changed
DirtyEffect == IF Len(slices) > 0 THEN TRUE ELSE settingsDirty

\* the Web Optimization checkbox, with the dirty effect
ToggleOptimize ==
    /\ UserEvent(FALSE)
    /\ image # Null
    /\ optimizeResolution' = ~optimizeResolution
    /\ settingsDirty' = DirtyEffect
    /\ UNCHANGED <<image, gridConfig, quality, outputFormat, gridLines, slices, isSlicing,
                   dragging, listeners, passes, publishedBy, previous, isZipping, zips, started, lastExport>>

\* an output format button other than the selected one, with the dirty effect
SetOutputFormat(fmt) ==
    /\ UserEvent(TRUE)
    /\ image # Null
    /\ fmt # outputFormat
    /\ outputFormat' = fmt
    /\ settingsDirty' = DirtyEffect
    /\ UNCHANGED <<image, gridConfig, optimizeResolution, quality, gridLines, slices,
                   isSlicing, dragging, listeners, passes, publishedBy, previous,
                   isZipping, zips, started, lastExport>>

\* the quality slider moved to another position, with the dirty effect; the
\* slider takes no pointer events while the format is png
SetQuality(q) ==
    /\ UserEvent(TRUE)
    /\ image # Null
    /\ outputFormat # "png"
    /\ q # quality
    /\ quality' = q
    /\ settingsDirty' = DirtyEffect
    /\ UNCHANGED <<image, gridConfig, optimizeResolution, outputFormat, gridLines, slices,
                   isSlicing, dragging, listeners, passes, publishedBy, previous,
                   isZipping, zips, started, lastExport>>

(***************************************************************************)
(* GridEditor: the drag protocol.                                          *)
(***************************************************************************)
LinesOf(gl, type) == IF type = "h" THEN gl.horizontal ELSE gl.vertical

\* ListenerEffect that registers the listeners whatever the dragging state
ListenerEffectLeaky(d) == {"mousemove", "mouseup"}

\* the [dragging, ...] effect: the cleanup of the previous run removes both
\* listeners, the new run adds them when dragging is set
ListenerEffect(d) == IF d # Null THEN {"mousemove", "mouseup"} ELSE {}

\* a press on a rendered handle (one that no pointer-move can follow within
\* MaxUpsets is not explored)
handleMouseDown(type, boundaryIdx, side) ==
    /\ UserEvent(FALSE)
    /\ upsets' < MaxUpsets
    /\ image # Null
    /\ boundaryIdx \in 0..(Len(LinesOf(gridLines, type)) - 1)
    /\ dragging' = Some([type |-> type, boundaryIdx |-> boundaryIdx, side |-> side])
    /\ listeners' = ListenerEffect(dragging')
    /\ UNCHANGED <<image, gridConfig, optimizeResolution, quality, outputFormat, gridLines, slices,
                   isSlicing, settingsDirty, passes, publishedBy, previous, isZipping, zips, started, lastExport>>

\* pointer position as a percentage of the surface along one axis
PointerPercent(client, origin, extent) ==
    RMul(RDiv(R(client - origin), R(extent)), R(100))

\* Clamp without the lower limit
ClampAboveOnly(v) == RMin(R(100), v)

\* Clamp without the upper limit
ClampBelowOnly(v) == RMax(R(0), v)

Clamp(v) == RMax(R(0), RMin(R(100), v))

\* MapBoundaries that adds a boundary when the captured index is beyond the
\* list
MapBoundariesAppending(boundaries, boundaryIdx, side, v) ==
    IF boundaryIdx >= Len(boundaries)
    THEN Append(boundaries, [start |-> v, end |-> v])
    ELSE [k \in 1..Len(boundaries) |->
             IF k - 1 # boundaryIdx THEN boundaries[k]
             ELSE [boundaries[k] EXCEPT ![side] = v]]

\* MapBoundaries replacing both sides of the captured boundary
MapBoundariesBothSides(boundaries, boundaryIdx, side, v) ==
    [k \in 1..Len(boundaries) |->
        IF k - 1 # boundaryIdx THEN boundaries[k]
        ELSE [start |-> v, end |-> v]]

\* boundaries.map(...): the captured side of the captured boundary replaced
MapBoundaries(boundaries, boundaryIdx, side, v) ==
    [k \in 1..Len(boundaries) |->
        IF k - 1 # boundaryIdx THEN boundaries[k]
        ELSE [boundaries[k] EXCEPT ![side] = v]]

\* the GridLines value handleMouseMove hands to setGridLines
DraggedLines(gl, d, clampedX, clampedY) ==
    [horizontal |-> IF d.type = "h"
                    THEN MapBoundaries(gl.horizontal, d.boundaryIdx, d.side, clampedY)
                    ELSE gl.horizontal,
     vertical |-> IF d.type = "v"
                  THEN MapBoundaries(gl.vertical, d.boundaryIdx, d.side, clampedX)
                  ELSE gl.vertical]

\* a mousemove on the window while the listener is registered
handleMouseMove(rect, clientX, clientY) ==
    /\ UserEvent(TRUE)
    /\ "mousemove" \in listeners
    /\ IF dragging = Null THEN gridLines' = gridLines
       ELSE LET x == PointerPercent(clientX, rect.left, rect.width)
                y == PointerPercent(clientY, rect.top, rect.height)
            IN  gridLines' = DraggedLines(gridLines, dragging[1], Clamp(x), Clamp(y))
    /\ UNCHANGED <<image, gridConfig, optimizeResolution, quality, outputFormat, slices, isSlicing,
                   settingsDirty, dragging, listeners, passes, publishedBy, previous, isZipping, zips, started, lastExport>>

\* a mousemove on the window while no listener is registered: no handler runs
MouseMoveNoListener ==
    /\ UserEvent(TRUE)
    /\ "mousemove" \notin listeners
    /\ UNCHANGED <<image, gridConfig, optimizeResolution, quality, outputFormat, gridLines, slices, isSlicing,
                   settingsDirty, dragging, listeners, passes, publishedBy, previous, isZipping, zips, started, lastExport>>

\* handleMouseUp that ends the drag of a start handle only
handleMouseUpStartOnly ==
    /\ UserEvent(FALSE)
    /\ "mouseup" \in listeners
    /\ dragging' = (IF dragging # Null /\ dragging[1].side = "end" THEN dragging ELSE Null)
    /\ listeners' = ListenerEffect(dragging')
    /\ UNCHANGED <<image, gridConfig, optimizeResolution, quality, outputFormat, gridLines, slices,
                   isSlicing, settingsDirty, passes, publishedBy, previous, isZipping, zips, started, lastExport>>

\* a mouseup on the window while the listener is registered
handleMouseUp ==
    /\ UserEvent(FALSE)
    /\ "mouseup" \in listeners
    /\ dragging' = Null
    /\ listeners' = ListenerEffect(dragging')
    /\ UNCHANGED <<image, gridConfig, optimizeResolution, quality, outputFormat, gridLines, slices,
                   isSlicing, settingsDirty, passes, publishedBy, previous, isZipping, zips, started, lastExport>>

(***************************************************************************)
(* App: handleSlice and the callbacks that resume it.                      *)
(***************************************************************************)
\* Settle that shows the tiles collected so far whenever the pass suspends
SettleEager(rest, q) ==
    IF q.pc = "done"
    THEN /\ passes' = rest
         /\ slices' = q.newSlices
         /\ publishedBy' = Some(q)
         /\ previous' = publishedBy
         /\ IF q.newSlices = <<>> /\ slices # <<>> THEN SlicePreviewUnmounted
            ELSE UNCHANGED <<isZipping, zips>>
         /\ isSlicing' = FALSE
         /\ settingsDirty' = FALSE
    ELSE /\ passes' = rest \o <<q>>
         /\ isSlicing' = TRUE
         /\ slices' = q.newSlices
         /\ UNCHANGED <<publishedBy, previous, isZipping, zips, settingsDirty>>

\* what a pass does when it stops running: suspended again, or finished and
\* published (setSlices, setIsSlicing(false), setSettingsDirty(false))
Settle(rest, q) ==
    IF q.pc = "done"
    THEN /\ passes' = rest
         /\ slices' = q.newSlices
         /\ publishedBy' = Some(q)
         /\ previous' = publishedBy
         /\ IF q.newSlices = <<>> /\ slices # <<>> THEN SlicePreviewUnmounted
            ELSE UNCHANGED <<isZipping, zips>>
         /\ isSlicing' = FALSE
         /\ settingsDirty' = FALSE
    ELSE /\ passes' = rest \o <<q>>
         /\ isSlicing' = TRUE
         /\ UNCHANGED <<slices, publishedBy, previous, isZipping, zips, settingsDirty>>

\* SliceButtonEnabled without the disabled attribute
SliceButtonAlwaysEnabled == image # Null

\* the slice button is rendered with the image and disabled while isSlicing
SliceButtonEnabled == image # Null /\ ~isSlicing

\* a click on the slice button; without a 2d context the handler returns
\* after setIsSlicing(true)
handleSlice(ctx) ==
    /\ SliceButtonEnabled
    /\ IF ctx
       THEN /\ started' = started + 1
            /\ Settle(passes, RunLoop(NewPass(image[1], gridLines, optimizeResolution,
                                         outputFormat, quality)))
       ELSE /\ isSlicing' = TRUE
            /\ UNCHANGED <<slices, publishedBy, previous, isZipping, zips, settingsDirty, passes, started>>
    /\ UNCHANGED <<image, gridConfig, optimizeResolution, quality, outputFormat, gridLines, dragging, listeners, lastExport, upsets>>

\* the passes other than the first suspended one
Rest == IF passes = <<>> THEN <<>> ELSE Tail(passes)

\* DropTile that goes on without index++
DropTileNoCount(p) == SkipCell([p EXCEPT !.nulls = p.nulls + 1])

\* toBlob yielded null: nothing is pushed, index++ and on to the next column
DropTile(p) == EndIteration([p EXCEPT !.nulls = p.nulls + 1])

\* canvas.toBlob calls back, with a blob or with null
ToBlobCallback(blob) ==
    /\ passes # <<>>
    /\ passes[1].pc = "toBlob"
    /\ IF blob
       THEN /\ passes' = <<[passes[1] EXCEPT !.pc = "readAsDataURL"]>> \o Rest
            /\ UNCHANGED <<slices, publishedBy, previous, isZipping, zips, isSlicing, settingsDirty, upsets>>
       ELSE /\ upsets < MaxUpsets
            /\ upsets' = upsets + 1
            /\ Settle(Rest, RunLoop(DropTile(passes[1])))
    /\ UNCHANGED <<image, gridConfig, optimizeResolution, quality, outputFormat, gridLines, dragging, listeners, started, lastExport>>

\* ReaderLoaded that also puts the lines back to their defaults
ReaderLoadedNormalising ==
    /\ passes # <<>>
    /\ passes[1].pc = "readAsDataURL"
    /\ Settle(Rest, RunLoop(EndIteration(
           [passes[1] EXCEPT !.newSlices = Append(passes[1].newSlices, TileOf(passes[1]))])))
    /\ gridLines' = initializeGridLines(gridConfig.rows, gridConfig.cols)
    /\ UNCHANGED <<image, gridConfig, optimizeResolution, quality, outputFormat, dragging,
                   listeners, started, lastExport, upsets>>

\* reader.onloadend: the tile is pushed and the loop goes on
ReaderLoaded ==
    /\ passes # <<>>
    /\ passes[1].pc = "readAsDataURL"
    /\ Settle(Rest, RunLoop(EndIteration(
           [passes[1] EXCEPT !.newSlices = Append(passes[1].newSlices, TileOf(passes[1]))])))
    /\ UNCHANGED <<image, gridConfig, optimizeResolution, quality, outputFormat, gridLines, dragging, listeners,
                   started, lastExport, upsets>>

(***************************************************************************)
(* SlicePreview: the exports (src/components/SlicePreview.tsx).  A file    *)
(* name is the record of its number and its extension.                     *)
(***************************************************************************)
\* the extension both downloads write into the file name
exportExtension == "webp"

\* the entries downloadAll adds to the archive: forEach((slice, idx) => ...)
\* names the entry of 0-based position idx slice_${idx + 1}
ArchiveEntries(list) ==
    [k \in DOMAIN list |->
        [name |-> [number |-> (k - 1) + 1, ext |-> exportExtension], tile |-> list[k]]]

\* the file downloadOne(slice.dataUrl, slice.index) saves: slice_${idx + 1}
SingleFile(slice) ==
    [name |-> [number |-> slice.index + 1, ext |-> exportExtension], tile |-> slice]

\* a request for the archive (the button, or a call of downloadAll that was
\* already under way): ignored while isZipping, else the entries are added
\* and the handler suspends on generateAsync
downloadAll ==
    /\ slices # <<>>
    /\ IF isZipping
       THEN /\ UserEvent(TRUE)
            /\ UNCHANGED <<isZipping, zips>>
       ELSE /\ UserEvent(FALSE)
            /\ isZipping' = TRUE
            /\ zips' = Append(zips, [entries |-> ArchiveEntries(slices),
                                      count |-> Len(slices), mounted |-> TRUE])
    /\ UNCHANGED <<image, gridConfig, optimizeResolution, quality, outputFormat, gridLines,
                   slices, isSlicing, settingsDirty, dragging, listeners, passes,
                   publishedBy, previous, started, lastExport>>

\* ZipSettled without the `finally`: isZipping is reset after a saved archive
\* only
ZipSettledOnSuccess(i, ok) ==
    /\ i \in DOMAIN zips
    /\ lastExport' = (IF ok THEN Some([kind |-> "zip", count |-> zips[i].count,
                                       files |-> zips[i].entries])
                      ELSE Some([kind |-> "alert", count |-> zips[i].count,
                                 files |-> <<>>]))
    /\ isZipping' = (IF zips[i].mounted /\ ok THEN FALSE ELSE isZipping)
    /\ zips' = [k \in 1..(Len(zips) - 1) |-> IF k < i THEN zips[k] ELSE zips[k + 1]]
    /\ UNCHANGED <<image, gridConfig, optimizeResolution, quality, outputFormat, gridLines,
                   slices, isSlicing, settingsDirty, dragging, listeners, passes,
                   publishedBy, previous, started, upsets>>

\* generateAsync settles for the i-th suspended export: the archive is saved
\* or the failure is alerted, and `finally` resets isZipping (a state update
\* of an unmounted component does nothing)
ZipSettled(i, ok) ==
    /\ i \in DOMAIN zips
    /\ lastExport' = (IF ok THEN Some([kind |-> "zip", count |-> zips[i].count,
                                       files |-> zips[i].entries])
                      ELSE Some([kind |-> "alert", count |-> zips[i].count,
                                 files |-> <<>>]))
    /\ isZipping' = (IF zips[i].mounted THEN FALSE ELSE isZipping)
    /\ zips' = [k \in 1..(Len(zips) - 1) |-> IF k < i THEN zips[k] ELSE zips[k + 1]]
    /\ UNCHANGED <<image, gridConfig, optimizeResolution, quality, outputFormat, gridLines,
                   slices, isSlicing, settingsDirty, dragging, listeners, passes,
                   publishedBy, previous, started, upsets>>

\* the download button of the k-th tile shown
downloadOne(k) ==
    /\ UserEvent(FALSE)
    /\ k \in DOMAIN slices
    /\ lastExport' = Some([kind |-> "one", count |-> 1, files |-> <<SingleFile(slices[k])>>])
    /\ UNCHANGED <<image, gridConfig, optimizeResolution, quality, outputFormat, gridLines,
                   slices, isSlicing, settingsDirty, dragging, listeners, passes,
                   publishedBy, previous, isZipping, zips, started>>

(***************************************************************************)
(* The editing session.                                                    *)
(***************************************************************************)
Next ==
    \/ \E img \in Images : ImageLoaded(img)
    \/ Reset
    \/ \E g \in Presets : SetGridConfig(g)
    \/ ToggleOptimize
    \/ \E fmt \in Formats : SetOutputFormat(fmt)
    \/ \E q \in Qualities : SetQuality(q)
    \/ \E type \in {"h", "v"}, boundaryIdx \in 0..6, side \in {"start", "end"} :
          handleMouseDown(type, boundaryIdx, side)
    \/ \E rect \in Rects, clientX \in ClientXs, clientY \in ClientYs :
          handleMouseMove(rect, clientX, clientY)
    \/ MouseMoveNoListener
    \/ handleMouseUp
    \/ \E ctx \in BOOLEAN : (ctx => started < MaxPasses) /\ handleSlice(ctx)
    \/ \E blob \in BOOLEAN : ToBlobCallback(blob)
    \/ ReaderLoaded

Spec == Init /\ [][Next]_vars

(***************************************************************************)
(* The session without drags, with the slice button pressed up to          *)
(* MaxRepeats times.                                                       *)
(***************************************************************************)
ButtonNext ==
    \/ \E img \in Images : ImageLoaded(img)
    \/ Reset
    \/ \E g \in Presets : SetGridConfig(g)
    \/ ToggleOptimize
    \/ \E ctx \in BOOLEAN : (ctx => started < MaxRepeats) /\ handleSlice(ctx)
    \/ \E blob \in BOOLEAN : ToBlobCallback(blob)
    \/ ReaderLoaded

SpecButton == Init /\ [][ButtonNext]_vars

\* a pass waits for its FileReader
ReaderDue == passes # <<>> /\ passes[1].pc = "readAsDataURL"

\* the browser calls back every toBlob and every FileReader that was started:
\* weak fairness of the two callbacks, that of ReaderLoaded written out with
\* ReaderDue, its enabling condition
Fairness ==
    /\ WF_vars(ToBlobCallback(TRUE))
    /\ ([]<>~ReaderDue) \/ ([]<><<ReaderLoaded>>_vars)

SpecLive == Init /\ [][ButtonNext]_vars /\ Fairness

(***************************************************************************)
(* The session of slicing and exporting: no drags, one image size.         *)
(***************************************************************************)
ExportImages == {[w |-> 1000, h |-> 200]}

ExportNext ==
    \/ \E img \in ExportImages : ImageLoaded(img)
    \/ Reset
    \/ \E fmt \in Formats : SetOutputFormat(fmt)
    \/ \E ctx \in BOOLEAN : (ctx => started < MaxRepeats) /\ handleSlice(ctx)
    \/ \E blob \in BOOLEAN : ToBlobCallback(blob)
    \/ ReaderLoaded
    \/ downloadAll
    \/ \E i \in 1..MaxRepeats, ok \in BOOLEAN : ZipSettled(i, ok)
    \/ \E k \in 1..MaxCells : downloadOne(k)

SpecExport == Init /\ [][ExportNext]_vars

(***************************************************************************)
(* The boundary function and the slicing of default grids, for every       *)
(* rows / cols count up to MaxCount: the App with its GridConfig drawn     *)
(* from that range, an image loaded and passes run on the default lines,   *)
(* with an encoder that yields every blob.                                 *)
(***************************************************************************)
FnImages == {[w |-> 300, h |-> 300], [w |-> 1000, h |-> 200], [w |-> 5000, h |-> 5000]}

FnInit ==
    /\ image = Null
    /\ gridConfig \in [rows : 1..MaxCount, cols : 1..MaxCount]
    /\ optimizeResolution \in BOOLEAN
    /\ quality = <<3, 5>>
    /\ outputFormat = "webp"
    /\ gridLines = [horizontal |-> <<>>, vertical |-> <<>>]
    /\ slices = <<>>
    /\ isSlicing = FALSE
    /\ settingsDirty = FALSE
    /\ dragging = Null
    /\ listeners = {}
    /\ passes = <<>>
    /\ publishedBy = Null
    /\ previous = Null
    /\ isZipping = FALSE
    /\ zips = <<>>
    /\ lastExport = Null
    /\ started = 0
    /\ upsets = 0

FnNext ==
    \/ \E img \in FnImages : image = Null /\ ImageLoaded(img)
    \/ \E ctx \in BOOLEAN : (ctx => started < MaxPasses) /\ handleSlice(ctx)
    \/ ToBlobCallback(TRUE)
    \/ ReaderLoaded

SpecFn == FnInit /\ [][FnNext]_vars

(***************************************************************************)
(* Properties.                                                             *)
(***************************************************************************)
\* the passes of the state: the suspended ones and the one that published
AllPasses ==
    {passes[i] : i \in DOMAIN passes} \cup {publishedBy[i] : i \in DOMAIN publishedBy}
Published == {publishedBy[i] : i \in DOMAIN publishedBy}

\* the default boundary of index i (0-based) for a count, in closed form
ExpectedBoundary(i, count) ==
    IF i = 0 THEN [start |-> <<0, 1>>, end |-> <<3, 2>>]
    ELSE IF i = count THEN [start |-> <<197, 2>>, end |-> <<100, 1>>]
    ELSE [start |-> Norm(100 * i - count, count), end |-> Norm(100 * i + count, count)]

IsDefaultBoundaries(b, count) ==
    /\ Len(b) = count + 1
    /\ \A i \in 0..count : b[i + 1] = ExpectedBoundary(i, count)

\* p ran on the default boundaries of a rows x cols grid over image img
OnDefaultGrid(p, rows, cols, img) ==
    /\ p.image = img
    /\ IsDefaultBoundaries(p.gridLines.horizontal, rows)
    /\ IsDefaultBoundaries(p.gridLines.vertical, cols)

\* C3: for every count >= 1 generateBoundaries(count) gives count+1 boundaries,
\* the first {0, 1.5}, the last {98.5, 100}, and boundary i in between
\* {i*(100/count) - 1, i*(100/count) + 1}: once an image is loaded the lines of
\* each axis are exactly those, for the rows and the cols count.
C3_GenerateBoundaries ==
    image # Null =>
        /\ IsDefaultBoundaries(gridLines.horizontal, gridConfig.rows)
        /\ IsDefaultBoundaries(gridLines.vertical, gridConfig.cols)

C3_Witness ==
    /\ image # Null
    /\ gridConfig = [rows |-> 1, cols |-> 4]
    /\ Len(gridLines.vertical) = 5
    /\ gridLines.vertical[2] = [start |-> <<24, 1>>, end |-> <<26, 1>>]

\* C6 as stated: the single cell of a 1x1 default grid on a 5000x5000 source,
\* optimizeResolution off, gives exactly one tile, scaled by ratio 4096/5000.
C6_OriginalRatio ==
    \A p \in Published :
        (/\ OnDefaultGrid(p, 1, 1, [w |-> 5000, h |-> 5000])
         /\ ~p.optimizeResolution
         /\ p.nulls = 0)
        => /\ Len(p.newSlices) = 1
           /\ \A k \in DOMAIN p.newSlices :
                 LET d == p.newSlices[k].dataUrl
                 IN  /\ d.tw = RMul(d.sw, <<4096, 5000>>)
                     /\ d.th = RMul(d.sh, <<4096, 5000>>)

\* C6 amended: that pass gives exactly one tile; its crop is the 4850 x 4850
\* band between the two outer margins and it is scaled by ratio 4096/4850, to
\* 4096 x 4096.
C6_SingleCellRatio ==
    \A p \in Published :
        (/\ OnDefaultGrid(p, 1, 1, [w |-> 5000, h |-> 5000])
         /\ ~p.optimizeResolution
         /\ p.nulls = 0)
        => /\ Len(p.newSlices) = 1
           /\ \A k \in DOMAIN p.newSlices :
                 LET d == p.newSlices[k].dataUrl
                 IN  /\ d.sw = <<4850, 1>> /\ d.sh = <<4850, 1>>
                     /\ d.tw = RMul(d.sw, <<4096, 4850>>)
                     /\ d.th = RMul(d.sh, <<4096, 4850>>)
                     /\ d.tw = <<4096, 1>> /\ d.th = <<4096, 1>>

C6_Witness ==
    \E p \in Published :
        /\ OnDefaultGrid(p, 1, 1, [w |-> 5000, h |-> 5000])
        /\ ~p.optimizeResolution
        /\ p.nulls = 0
        /\ slices = p.newSlices
        /\ Len(slices) = 1

\* C8: a pass over the default 3x3 grid on a 300x300 source computes 9 crop
\* rectangles, one per cell in scan order, all of positive area, each with the
\* origin and size the default-boundary formula and the end-to-next-start band
\* rule give (x in {4.5, 103, 203}, width in {92.5, 94, 92.5}, likewise y and
\* height).
C8_ThreeByThree ==
    \A p \in Published :
        OnDefaultGrid(p, 3, 3, [w |-> 300, h |-> 300])
        => /\ Len(p.rects) = 9
           /\ \A r \in 0..2, c \in 0..2 :
                 LET rect == p.rects[r * 3 + c + 1]
                     x == RMul(ExpectedBoundary(c, 3).end, R(3))
                     y == RMul(ExpectedBoundary(r, 3).end, R(3))
                     xe == RMul(ExpectedBoundary(c + 1, 3).start, R(3))
                     ye == RMul(ExpectedBoundary(r + 1, 3).start, R(3))
                 IN  /\ rect = [row |-> r, col |-> c, x |-> x, y |-> y,
                                w |-> RSub(xe, x), h |-> RSub(ye, y)]
                     /\ rect.x \in {<<9, 2>>, <<103, 1>>, <<203, 1>>}
                     /\ rect.w \in {<<185, 2>>, <<94, 1>>}
                     /\ RLt(R(0), rect.w) /\ RLt(R(0), rect.h)

C8_Witness ==
    \E p \in Published :
        /\ OnDefaultGrid(p, 3, 3, [w |-> 300, h |-> 300])
        /\ Len(p.rects) = 9
        /\ Len(slices) = 9
        /\ slices[5].dataUrl.sx = <<103, 1>>
        /\ slices[5].dataUrl.sw = <<94, 1>>

\* the tiles a pass has pushed so far
TilesOf(p) == {p.newSlices[k] : k \in DOMAIN p.newSlices}

\* the resolution cap of a pass
CapOf(p) == IF p.optimizeResolution THEN 1080 ELSE 4096

PositiveArea(rect) == RLt(R(0), rect.w) /\ RLt(R(0), rect.h)

\* cell (r1, c1) comes before cell (r2, c2) in row-major scan order
ScansBefore(r1, c1, r2, c2) == r1 < r2 \/ (r1 = r2 /\ c1 < c2)

C2_CropRectangles ==
    \A p \in AllPasses :
        \A j \in DOMAIN p.rects :
            LET rect == p.rects[j]
                v == p.gridLines.vertical
                h == p.gridLines.horizontal
                r == (j - 1) \div numColsOf(p.gridLines)
                c == (j - 1) % numColsOf(p.gridLines)
                wRaw == RMul(RSub(v[c + 2].start, v[c + 1].end), <<p.image.w, 100>>)
                hRaw == RMul(RSub(h[r + 2].start, h[r + 1].end), <<p.image.h, 100>>)
            IN  /\ rect.row = r /\ rect.col = c
                /\ rect.x = Norm(v[c + 1].end[1] * p.image.w, v[c + 1].end[2] * 100)
                /\ rect.y = Norm(h[r + 1].end[1] * p.image.h, h[r + 1].end[2] * 100)
                /\ rect.w = (IF wRaw[1] < 0 THEN <<0, 1>> ELSE wRaw)
                /\ rect.h = (IF hRaw[1] < 0 THEN <<0, 1>> ELSE hRaw)

\* a pass on dragged lines finished: one band negative, the others positive
C2_Witness ==
    \E p \in Published :
        /\ ~IsDefaultBoundaries(p.gridLines.vertical, Len(p.gridLines.vertical) - 1)
        /\ Len(p.rects) = numRowsOf(p.gridLines) * numColsOf(p.gridLines)
        /\ \E j \in DOMAIN p.rects :
              /\ p.rects[j].w = <<0, 1>>
              /\ RLt(p.gridLines.vertical[p.rects[j].col + 2].start,
                     p.gridLines.vertical[p.rects[j].col + 1].end)
        /\ \E j \in DOMAIN p.rects : PositiveArea(p.rects[j])

\* C4: both target dimensions of every emitted tile are <= maxDim, 1080 when
\* the pass runs with optimizeResolution and 4096 when without.
C4_TargetWithinCap ==
    \A p \in AllPasses :
        \A t \in TilesOf(p) :
            /\ RLe(t.dataUrl.tw, R(CapOf(p)))
            /\ RLe(t.dataUrl.th, R(CapOf(p)))

C4_Witness ==
    \E p \in AllPasses :
        /\ ~p.optimizeResolution
        /\ \E t \in TilesOf(p) :
              /\ RLt(R(4096), t.dataUrl.sw)
              /\ t.dataUrl.tw = <<4096, 1>>

\* C5: a tile whose crop width or height exceeds maxDim has both dimensions
\* multiplied by the one ratio min(maxDim/width, maxDim/height): the aspect is
\* kept (targetWidth * height = targetHeight * width) and the larger crop
\* dimension becomes exactly maxDim.
C5_DownscaleKeepsAspect ==
    \A p \in AllPasses :
        \A t \in TilesOf(p) :
            LET d == t.dataUrl
                cap == R(CapOf(p))
                ratio == IF RLe(d.sh, d.sw) THEN Norm(CapOf(p) * d.sw[2], d.sw[1])
                         ELSE Norm(CapOf(p) * d.sh[2], d.sh[1])
            IN  (RLt(cap, d.sw) \/ RLt(cap, d.sh)) =>
                    /\ d.tw = RMul(d.sw, ratio)
                    /\ d.th = RMul(d.sh, ratio)
                    /\ RMul(d.tw, d.sh) = RMul(d.th, d.sw)
                    /\ IF RLe(d.sh, d.sw) THEN d.tw = cap ELSE d.th = cap

C5_Witness ==
    \E p \in AllPasses :
        \E t \in TilesOf(p) :
            /\ RLt(R(CapOf(p)), t.dataUrl.sw)
            /\ t.dataUrl.sw # t.dataUrl.sh
            /\ t.dataUrl.tw = R(CapOf(p))
            /\ RLt(t.dataUrl.th, t.dataUrl.sh)

\* C7: a tile whose crop width and height are both <= maxDim is output at
\* exactly its crop size; in particular a pass over the default 1x5 grid on a
\* 1000x200 source with optimizeResolution yields 5 tiles, none rescaled.
C7_SmallCropsKeepSize ==
    \A p \in AllPasses :
        /\ \A t \in TilesOf(p) :
              (RLe(t.dataUrl.sw, R(CapOf(p))) /\ RLe(t.dataUrl.sh, R(CapOf(p))))
              => (t.dataUrl.tw = t.dataUrl.sw /\ t.dataUrl.th = t.dataUrl.sh)
        /\ (/\ p \in Published
            /\ OnDefaultGrid(p, 1, 5, [w |-> 1000, h |-> 200])
            /\ p.optimizeResolution
            /\ p.nulls = 0)
           => /\ Len(p.newSlices) = 5
              /\ \A t \in TilesOf(p) :
                    /\ t.dataUrl.tw = t.dataUrl.sw /\ t.dataUrl.th = t.dataUrl.sh
                    /\ t.dataUrl.sh = <<194, 1>>
                    /\ t.dataUrl.sw \in {<<175, 1>>, <<180, 1>>}

C7_Witness ==
    \E p \in Published :
        /\ OnDefaultGrid(p, 1, 5, [w |-> 1000, h |-> 200])
        /\ p.optimizeResolution
        /\ p.nulls = 0
        /\ slices = p.newSlices
        /\ Len(slices) = 5

\* a pointer-move handled while dragging
MoveStep ==
    \E rect \in Rects, clientX \in ClientXs, clientY \in ClientYs :
        handleMouseMove(rect, clientX, clientY)

\* C9: a pointer-move handled while dragging(axis, boundaryIndex, side) changes
\* at most the captured scalar of the captured Boundary: every other Boundary
\* of both axes and the other side of the captured one stay as they were.
C9_MoveChangesOneScalar ==
    [][MoveStep =>
        /\ Len(gridLines'.horizontal) = Len(gridLines.horizontal)
        /\ Len(gridLines'.vertical) = Len(gridLines.vertical)
        /\ \A type \in {"h", "v"}, side \in {"start", "end"} :
              \A k \in DOMAIN LinesOf(gridLines, type) :
                  LinesOf(gridLines', type)[k][side] # LinesOf(gridLines, type)[k][side]
                  => dragging = Some([type |-> type, boundaryIdx |-> k - 1, side |-> side])
    ]_vars

\* a drag has moved the captured scalar away from its default, and only it
C9_Witness ==
    /\ dragging # Null
    /\ upsets = 1
    /\ started = 0
    /\ dragging[1].type = "v"
    /\ gridLines.vertical[dragging[1].boundaryIdx + 1][dragging[1].side] = <<50, 1>>
    /\ IsDefaultBoundaries(gridLines.horizontal, gridConfig.rows)
    /\ ~IsDefaultBoundaries(gridLines.vertical, gridConfig.cols)

\* the pointer position along one axis, as a clamped percentage of the surface
ExpectedPercent(client, origin, extent) ==
    IF client <= origin THEN <<0, 1>>
    ELSE IF client >= origin + extent THEN <<100, 1>>
    ELSE Norm((client - origin) * 100, extent)

\* C10: a pointer-move handled while dragging sets the captured scalar to the
\* pointer position as a percentage of the editing surface along the captured
\* boundary's axis (vertical position for a horizontal boundary, horizontal
\* for a vertical one), clamped to [0,100]: a pointer outside the surface
\* gives exactly 0 or 100.
C10_MoveSetsClampedPercent ==
    [][\A rect \in Rects, clientX \in ClientXs, clientY \in ClientYs :
          (/\ handleMouseMove(rect, clientX, clientY)
           /\ dragging[1].boundaryIdx < Len(LinesOf(gridLines, dragging[1].type)))
          => LinesOf(gridLines', dragging[1].type)[dragging[1].boundaryIdx + 1][dragging[1].side]
                = IF dragging[1].type = "h"
                  THEN ExpectedPercent(clientY, rect.top, rect.height)
                  ELSE ExpectedPercent(clientX, rect.left, rect.width)
    ]_vars

\* a pointer below the surface has put a horizontal boundary's start at 100
C10_Witness ==
    /\ dragging = Some([type |-> "h", boundaryIdx |-> 1, side |-> "start"])
    /\ upsets = 1
    /\ started = 0
    /\ gridLines.horizontal[2].start = <<100, 1>>
    /\ gridLines.horizontal[2].end = ExpectedBoundary(1, gridConfig.rows).end

\* C11: from any dragging state a pointer-release is handled (the release
\* listener is registered in every dragging state) and leaves the controller
\* idle, whichever scalar was captured; the handler reads no pointer position.
C11_ReleaseGoesIdle ==
    /\ [](dragging # Null => "mouseup" \in listeners)
    /\ [][handleMouseUp => dragging' = Null]_vars

\* a drag moved a scalar and was released
C11_Witness ==
    /\ image # Null
    /\ dragging = Null
    /\ upsets = 1
    /\ started = 0
    /\ ~(/\ IsDefaultBoundaries(gridLines.horizontal, gridConfig.rows)
         /\ IsDefaultBoundaries(gridLines.vertical, gridConfig.cols))

\* C12: the window pointer-move and pointer-release listeners are registered
\* exactly while the controller is dragging: both in every dragging state,
\* none in idle, none after a release; and a pointer-move that occurs while
\* idle leaves GridLines as they are.
C12_ListenersWhileDragging ==
    /\ [](listeners = IF dragging # Null THEN {"mousemove", "mouseup"} ELSE {})
    /\ [][handleMouseUp => listeners' = {}]_vars
    /\ [][(dragging = Null /\ (MouseMoveNoListener \/ MoveStep))
            => gridLines' = gridLines]_vars

\* a pointer-move went by while idle on a loaded image
C12_Witness ==
    /\ image # Null
    /\ dragging = Null
    /\ listeners = {}
    /\ upsets = 1
    /\ started = 0
    /\ IsDefaultBoundaries(gridLines.horizontal, gridConfig.rows)
    /\ IsDefaultBoundaries(gridLines.vertical, gridConfig.cols)

\* the extents of the bands of column c and row r (0-based), in percent, as
\* the lines give them: negative when the next boundary starts before this
\* one ends
BandW(gl, c) == RSub(gl.vertical[c + 2].start, gl.vertical[c + 1].end)
BandH(gl, r) == RSub(gl.horizontal[r + 2].start, gl.horizontal[r + 1].end)

PositiveCells(gl) ==
    {cell \in (0..(numRowsOf(gl) - 1)) \X (0..(numColsOf(gl) - 1)) :
        RLt(R(0), BandH(gl, cell[1])) /\ RLt(R(0), BandW(gl, cell[2]))}

\* C13: for every GridLines value reached by drags, boundaries with
\* start > end and overlapping neighbours included, a pass emits a tile for
\* cell (r, c) only if both its band extents are strictly positive, a negative
\* band being skipped like an empty one; the pass is not cut short: it goes
\* over every cell and encodes each cell of positive extents.
C13_OnlyPositiveBands ==
    \A p \in AllPasses :
        /\ \A t \in TilesOf(p) : <<t.row, t.col>> \in PositiveCells(p.gridLines)
        /\ p \in Published =>
              /\ Len(p.rects) = numRowsOf(p.gridLines) * numColsOf(p.gridLines)
              /\ Len(p.newSlices) + p.nulls = Cardinality(PositiveCells(p.gridLines))

\* a pass finished on lines with a negative band, with tiles for other cells
C13_Witness ==
    \E p \in Published :
        /\ slices = p.newSlices
        /\ Len(slices) > 0
        /\ \E c \in 0..(numColsOf(p.gridLines) - 1) : RLt(BandW(p.gridLines, c), R(0))
        /\ Cardinality(PositiveCells(p.gridLines))
              < numRowsOf(p.gridLines) * numColsOf(p.gridLines)

\* C14: when the encoder yields no payload for a cell, no tile is pushed for
\* it, the pass goes on with the remaining cells to its end, and the index is
\* advanced all the same: it counts the cells whose encode was attempted (tiles
\* pushed plus encodes that failed), so a tile after a failed cell has an index
\* ahead of its list position.
C14_FailedEncodeKeepsCounting ==
    \A p \in AllPasses :
        /\ p.index = Len(p.newSlices) + p.nulls
        /\ \A k \in DOMAIN p.newSlices :
              /\ p.newSlices[k].index >= k - 1
              /\ p.newSlices[k].index <= k - 1 + p.nulls
        /\ p \in Published =>
              /\ Len(p.rects) = numRowsOf(p.gridLines) * numColsOf(p.gridLines)
              /\ Len(p.newSlices) =
                    Cardinality({j \in DOMAIN p.rects : PositiveArea(p.rects[j])}) - p.nulls

\* a pass with one failed encode finished, with a tile after the failed cell
C14_Witness ==
    \E p \in Published :
        /\ p.nulls = 1
        /\ slices = p.newSlices
        /\ \E k \in DOMAIN slices : slices[k].index = k
        /\ \E k \in DOMAIN slices : slices[k].index = k - 1

\* the tiles of a list are in row-major scan order, with increasing index
InScanOrder(list) ==
    \A i, j \in DOMAIN list :
        i < j => /\ ScansBefore(list[i].row, list[i].col, list[j].row, list[j].col)
                 /\ list[i].index < list[j].index

\* C15: the result list of every pass, while it is built and once it is
\* published, is in row-major scan order: for list positions i < j, (row, col)
\* of tile i is lexicographically smaller than that of tile j and its index is
\* smaller.
C15_RowMajorOrder ==
    /\ InScanOrder(slices)
    /\ \A p \in AllPasses : InScanOrder(p.newSlices)

\* the nine tiles of a 3x3 grid are published
C15_Witness ==
    /\ Len(slices) = 9
    /\ slices[3].row = 0 /\ slices[3].col = 2
    /\ slices[4].row = 1 /\ slices[4].col = 0

\* the cells of a pass whose resample and encode has begun, and those whose
\* encode has resolved (tile pushed or blob null)
Begun(p) == Cardinality({j \in DOMAIN p.rects : PositiveArea(p.rects[j])})
Resolved(p) == Len(p.newSlices) + p.nulls
Awaiting(p) == p.pc \in {"toBlob", "readAsDataURL"}

\* C16: within one pass the resample and encode of the next cell does not
\* begin until the encode and the read-back of the previous cell have
\* resolved: exactly one encode is outstanding while the pass waits, none
\* otherwise, and while it waits no cell beyond the awaited one has been taken.
C16_OneEncodeAtATime ==
    \A p \in AllPasses :
        /\ Begun(p) - Resolved(p) = (IF Awaiting(p) THEN 1 ELSE 0)
        /\ Awaiting(p) =>
              /\ Len(p.rects) = p.r * numColsOf(p.gridLines) + p.c + 1
              /\ p.rects[Len(p.rects)].row = p.r
              /\ p.rects[Len(p.rects)].col = p.c

\* a pass waits for the read-back of its third cell, two tiles pushed
C16_Witness ==
    \E i \in DOMAIN passes :
        /\ passes[i].pc = "readAsDataURL"
        /\ Len(passes[i].newSlices) = 2
        /\ Begun(passes[i]) = 3

\* C17 as stated: every invocation of the slicing pass that sets the
\* slicing-in-progress flag eventually runs to completion and clears the flag,
\* the encoder callbacks being scheduled fairly.
C17_EveryPassCompletes == isSlicing ~> ~isSlicing

\* C18 as stated: nothing prevents a second pass from being started while an
\* earlier one is in progress: with a pass in flight and an image loaded, a
\* slice request still starts a pass.
C18_SecondPassNotPrevented ==
    (passes # <<>> /\ image # Null) => ENABLED handleSlice(TRUE)

\* C18 amended: while a pass is in progress the slicing flag is set, which
\* disables the slice button, so that slice requests start no second pass: at
\* most one pass is in flight in every reachable state, and a further pass
\* starts only after the earlier one has completed.
C18_OnePassAtATime ==
    /\ Len(passes) <= 1
    /\ passes # <<>> => isSlicing

\* a second pass is in flight, after the first has published its tiles
C18_Witness ==
    /\ started = 2
    /\ Len(passes) = 1
    /\ isSlicing
    /\ publishedBy # Null
    /\ Len(slices) > 0

\* C19: whenever the source image or the GridConfig changes and an image is
\* loaded afterwards (an image load, a preset button), GridLines becomes the
\* default boundaries of the current rows and cols, whatever drags had made
\* of it.
C19_ResetOnChange ==
    [][(/\ image' # Null
        /\ \/ image' # image
           \/ gridConfig' # gridConfig
           \/ \E img \in Images : ImageLoaded(img)
           \/ \E g \in Presets : SetGridConfig(g))
       => /\ IsDefaultBoundaries(gridLines'.horizontal, gridConfig'.rows)
          /\ IsDefaultBoundaries(gridLines'.vertical, gridConfig'.cols)
    ]_vars

\* the 1x5 preset was chosen in the course of a drag with a pointer-move
C19_Witness ==
    /\ image # Null
    /\ gridConfig = [rows |-> 1, cols |-> 5]
    /\ dragging # Null
    /\ dragging[1].boundaryIdx = 3
    /\ dragging[1].type = "h"
    /\ upsets = 1
    /\ started = 0
    /\ IsDefaultBoundaries(gridLines.horizontal, 1)
    /\ IsDefaultBoundaries(gridLines.vertical, 5)

\* C20 as stated: in every reachable state GridLines.horizontal has rows + 1
\* entries and GridLines.vertical has cols + 1 entries, for the current
\* GridConfig.
C20_LengthsAlways ==
    /\ Len(gridLines.horizontal) = gridConfig.rows + 1
    /\ Len(gridLines.vertical) = gridConfig.cols + 1

\* C20 amended: in every reachable state from the first image load on,
\* GridLines.horizontal has rows + 1 entries and GridLines.vertical has
\* cols + 1 entries, for the current GridConfig; before the first image is
\* loaded both lists are empty.
C20_LengthsOnceLoaded ==
    \/ /\ Len(gridLines.horizontal) = gridConfig.rows + 1
       /\ Len(gridLines.vertical) = gridConfig.cols + 1
    \/ /\ image = Null
       /\ gridLines = [horizontal |-> <<>>, vertical |-> <<>>]
       /\ started = 0

\* the 1x5 preset is on, with a boundary dragged away from its default
C20_Witness ==
    /\ image # Null
    /\ gridConfig = [rows |-> 1, cols |-> 5]
    /\ Len(gridLines.horizontal) = 2
    /\ Len(gridLines.vertical) = 6
    /\ upsets = 1
    /\ ~IsDefaultBoundaries(gridLines.vertical, 5)

\* the start and the end of a boundary are percentages
InPercentRange(b) ==
    /\ RLe(R(0), b.start) /\ RLe(b.start, R(100))
    /\ RLe(R(0), b.end) /\ RLe(b.end, R(100))

\* C21: in every reachable state every Boundary of GridLines has its start
\* and its end in [0, 100]; the default lines of each of the three presets
\* are in that range, and every drag keeps them there.
C21_BoundariesInRange ==
    /\ \A k \in DOMAIN gridLines.horizontal : InPercentRange(gridLines.horizontal[k])
    /\ \A k \in DOMAIN gridLines.vertical : InPercentRange(gridLines.vertical[k])
    /\ \A g \in AllPresets :
          LET gl == initializeGridLines(g.rows, g.cols)
          IN  /\ \A k \in DOMAIN gl.horizontal : InPercentRange(gl.horizontal[k])
              /\ \A k \in DOMAIN gl.vertical : InPercentRange(gl.vertical[k])

\* a vertical boundary was dragged with the pointer left of the surface: its
\* start is at the lower limit
C21_Witness ==
    /\ image # Null
    /\ dragging # Null
    /\ dragging[1] = [type |-> "v", boundaryIdx |-> 2, side |-> "start"]
    /\ gridLines.vertical[3].start = R(0)
    /\ upsets = 1

\* s is t, or t with one more element at its end
ExtendsByAtMostOne(s, t) ==
    /\ Len(s) \in {Len(t), Len(t) + 1}
    /\ \A k \in DOMAIN t : s[k] = t[k]

\* C22: the published slice list changes only by wholesale replacement: it
\* becomes the empty list (reset), or the whole result list of a pass that
\* completes in that step; a step in which a pass stays in flight leaves the
\* published list as it is, however many tiles the pass has collected.
C22_WholesaleReplacement ==
    [][/\ slices' # slices =>
            \/ slices' = <<>>
            \/ /\ passes # <<>> \/ started' = started + 1
               /\ Len(passes') <= Len(passes)
               /\ publishedBy' # Null
               /\ publishedBy'[1].pc = "done"
               /\ slices' = publishedBy'[1].newSlices
               /\ passes # <<>> =>
                     ExtendsByAtMostOne(publishedBy'[1].newSlices, passes[1].newSlices)
       /\ (passes' # passes /\ passes' # <<>>) => slices' = slices
      ]_vars

\* a second pass has collected two tiles while the nine tiles of the first
\* pass, made with the other resolution setting, are still the published list
C22_Witness ==
    /\ started = 2
    /\ passes # <<>>
    /\ Len(passes[1].newSlices) = 2
    /\ Len(slices) = 9
    /\ publishedBy # Null
    /\ slices = publishedBy[1].newSlices
    /\ publishedBy[1].optimizeResolution # passes[1].optimizeResolution
    /\ slices[1] # passes[1].newSlices[1]

\* a step of a slicing pass: a click on the slice button, or a callback that
\* resumes a suspended pass
PassStep == passes' # passes \/ isSlicing' # isSlicing

\* C23: a slicing pass only reads GridLines: no step of a pass changes
\* GridLines, GridConfig or the SliceConfig (quality, optimizeResolution,
\* outputFormat); GridLines changes only in a pointer-move of a drag or in a
\* full reset to the defaults of the GridConfig.
C23_PassOnlyReads ==
    [][/\ PassStep =>
            UNCHANGED <<gridLines, gridConfig, optimizeResolution, quality, outputFormat>>
       /\ gridLines' # gridLines =>
            \/ dragging # Null /\ MoveStep
            \/ /\ image' # Null
               /\ gridLines' = initializeGridLines(gridConfig'.rows, gridConfig'.cols)
               /\ slices' = <<>>
               /\ ~PassStep
      ]_vars

\* a pass over dragged lines has run to its end, and the lines and the
\* settings are still those it started with
C23_Witness ==
    /\ image # Null
    /\ dragging # Null
    /\ upsets = 1
    /\ passes = <<>>
    /\ \E p \in Published :
        /\ p.gridLines = gridLines
        /\ ~IsDefaultBoundaries(gridLines.horizontal, gridConfig.rows)
        /\ p.optimizeResolution = optimizeResolution
        /\ p.quality = quality
        /\ p.outputFormat = outputFormat
        /\ Len(slices) = gridConfig.rows * gridConfig.cols

\* the downloads handed to the browser by the last export
Exported == {lastExport[i] : i \in DOMAIN lastExport}

\* C24: in a bulk export every tile's archive entry is named by the tile's
\* own index field, the number the single download of that tile uses, for
\* every result list, lists with index gaps included.
C24_ArchiveNamedByIndex ==
    \A e \in Exported :
        e.kind = "zip" =>
            \A k \in DOMAIN e.files :
                /\ e.files[k].name.number = e.files[k].tile.index + 1
                /\ e.files[k].name = SingleFile(e.files[k].tile).name

\* the output format a tile was encoded with: the subtype of the MIME type
\* handed to toBlob
FormatOf(tile) == tile.dataUrl.mimeType[2]

\* C25: every exported tile file name, archive entry or single download,
\* carries the file extension of the output format the tile was encoded
\* with (webp, jpeg or png).
C25_ExtensionOfFormat ==
    \A e \in Exported :
        \A k \in DOMAIN e.files : e.files[k].name.ext = FormatOf(e.files[k].tile)

\* the exports of the SlicePreview now on the page that are still suspended
OwnZips == {k \in DOMAIN zips : zips[k].mounted}

\* C26: isZipping is set exactly while an export of the SlicePreview on the
\* page is suspended, so once the attempt has settled, with the archive saved
\* or with the failure alerted, it is false again and the next request is
\* accepted; a request made while isZipping is set changes nothing.
C26_ZippingResets ==
    /\ [](isZipping <=> OwnZips # {})
    /\ [](Cardinality(OwnZips) <= 1)
    /\ [][/\ (Len(zips') < Len(zips) /\ OwnZips # {} /\ OwnZips' = {}) =>
                /\ ~isZipping'
                /\ lastExport'[1].kind \in {"zip", "alert"}
          /\ (downloadAll /\ isZipping) =>
                UNCHANGED <<image, gridConfig, optimizeResolution, quality, outputFormat,
                            gridLines, slices, isSlicing, settingsDirty, dragging,
                            listeners, passes, publishedBy, previous, isZipping, zips,
                            lastExport, started>>
          /\ (downloadAll /\ ~isZipping) =>
                /\ isZipping'
                /\ zips' = Append(zips, zips'[Len(zips')])
                /\ zips'[Len(zips')].entries = ArchiveEntries(slices)
         ]_vars

\* the only export so far has failed, and the next request of the same
\* SlicePreview has been accepted
C26_Witness ==
    /\ image # Null
    /\ started = 1
    /\ slices # <<>>
    /\ lastExport # Null
    /\ lastExport[1].kind = "alert"
    /\ isZipping
    /\ Len(zips) = 1
    /\ zips[1].mounted

Previous == {previous[i] : i \in DOMAIN previous}

\* the values a pass works on
InputsOf(p) ==
    <<p.image, p.gridLines, p.quality, p.optimizeResolution, p.outputFormat>>

\* the result list of slicing img along gl with the given settings when every
\* encode yields a blob: the cells of positive area in row-major order,
\* numbered in that order
ExpectedSlices(img, gl, optimize, format, q) ==
    LET rows == Len(gl.horizontal) - 1
        cols == Len(gl.vertical) - 1
        cells == IF rows < 1 \/ cols < 1 THEN <<>>
                 ELSE [k \in 1..(rows * cols) |->
                          [r |-> (k - 1) \div cols, c |-> (k - 1) % cols]]
        Keep(cell) == PositiveArea(CropRect(gl, img, cell.r, cell.c))
        kept == SelectSeq(cells, Keep)
    IN  [k \in DOMAIN kept |->
            [dataUrl |-> Payload(img, CropRect(gl, img, kept[k].r, kept[k].c), optimize,
                                 mimeTypeOf(format), qValOf(format, q)),
             index |-> k - 1, row |-> kept[k].r, col |-> kept[k].c]]

\* C27: two slicing passes over the same image, GridLines and SliceConfig,
\* with an encoder that yields every blob, publish identical result lists:
\* the list is the function ExpectedSlices of those values.
C27_SameInputsSameSlices ==
    /\ \A p \in Published, q \in Previous :
          (InputsOf(p) = InputsOf(q) /\ p.nulls = 0 /\ q.nulls = 0)
          => p.newSlices = q.newSlices
    /\ \A p \in Published \cup Previous :
          p.nulls = 0 =>
             p.newSlices = ExpectedSlices(p.image, p.gridLines, p.optimizeResolution,
                                          p.outputFormat, p.quality)

\* the slice button was pressed twice with nothing changed in between, and
\* both passes published their nine tiles
C27_Witness ==
    /\ started = 2
    /\ passes = <<>>
    /\ \E p \in Published, q \in Previous :
          /\ InputsOf(p) = InputsOf(q)
          /\ p.nulls = 0
          /\ q.nulls = 0
          /\ Len(q.newSlices) = 9
          /\ slices = p.newSlices

\* C28: whenever no image is loaded the published slice list is empty, also
\* when Reset is pressed or the image is replaced while a pass is in flight
\* and the pass completes afterwards.
C28_NoImageNoSlices == image = Null => slices = <<>>

\* C29: whenever the published list is non-empty, the dirty flag is false and
\* no pass is in flight, the published slices are exactly what slicing the
\* current GridLines of the loaded image with the current quality,
\* optimizeResolution and outputFormat produces (every encode of the pass
\* that published having yielded a blob).
C29_CleanMeansCurrent ==
    (/\ slices # <<>>
     /\ ~settingsDirty
     /\ passes = <<>>
     /\ ~isSlicing
     /\ image # Null
     /\ \A p \in Published : p.nulls = 0)
    => slices = ExpectedSlices(image[1], gridLines, optimizeResolution, outputFormat, quality)

\* the values of the App state a handleSlice invoked now would work on
CurrentInputs == <<image[1], gridLines, quality, optimizeResolution, outputFormat>>

\* the payload of the cell (row, col) under the values pass p holds
PayloadOf(p, row, col) ==
    Payload(p.image, CropRect(p.gridLines, p.image, row, col), p.optimizeResolution,
            mimeTypeOf(p.outputFormat), qValOf(p.outputFormat, p.quality))

\* C30: every tile a pass collects and publishes is computed from the
\* GridLines, image and SliceConfig the pass captured when it started: the
\* values a pass holds are those of the state in which the slice button was
\* clicked, they stay the same for as long as the pass runs, and each tile
\* is the payload of its cell under them, whatever is dragged or changed
\* meanwhile.
C30_TilesFromCapturedValues ==
    /\ [](\A p \in AllPasses : \A t \in TilesOf(p) :
             t.dataUrl = PayloadOf(p, t.row, t.col))
    /\ [](\A p \in Published :
             p.nulls = 0 => slices = ExpectedSlices(p.image, p.gridLines,
                                p.optimizeResolution, p.outputFormat, p.quality))
    /\ [][/\ (passes = <<>> /\ passes' # <<>>) => InputsOf(passes'[1]) = CurrentInputs
          /\ (passes # <<>> /\ passes' # <<>>) => InputsOf(passes'[1]) = InputsOf(passes[1])
          /\ (publishedBy' # publishedBy /\ publishedBy' # Null) =>
                InputsOf(publishedBy'[1]) =
                    (IF passes # <<>> THEN InputsOf(passes[1]) ELSE CurrentInputs)
         ]_vars

\* the resolution setting was changed while the pass ran: the nine tiles
\* published are current by the dirty flag, and made with the other setting
C30_Witness ==
    /\ image # Null
    /\ passes = <<>>
    /\ ~settingsDirty
    /\ upsets = 1
    /\ \E p \in Published :
        /\ p.optimizeResolution # optimizeResolution
        /\ p.image = [w |-> 5000, h |-> 5000]
        /\ p.nulls = 0
        /\ Len(slices) = 9
        /\ slices = p.newSlices

\* C31: in every reachable state every published slice has
\* row < horizontal.length - 1 and col < vertical.length - 1 for the current
\* GridLines, and no two published slices share their (row, col) or their
\* index, also when GridConfig changes while a pass is in flight.
C31_SlicesWithinCurrentGrid ==
    /\ \A k \in DOMAIN slices :
          /\ slices[k].row < Len(gridLines.horizontal) - 1
          /\ slices[k].col < Len(gridLines.vertical) - 1
    /\ \A j, k \in DOMAIN slices :
          j # k => /\ <<slices[j].row, slices[j].col>> # <<slices[k].row, slices[k].col>>
                   /\ slices[j].index # slices[k].index

\* C32: in every reachable state the slicing-in-progress flag is true if and
\* only if a slicing pass is in flight: it is not left true after the pass
\* has returned, the early return without a drawing context included, and
\* it is not false while a pass still runs.
C32_FlagIffPassInFlight == isSlicing <=> passes # <<>>

\* the captured boundary index is beyond the lines of its axis
OutOfRange(d, gl) == d.boundaryIdx >= Len(LinesOf(gl, d.type))

\* C33: no drag event changes the number of boundaries of either axis: a
\* press, a pointer-move and a release preserve horizontal.length and
\* vertical.length, and a pointer-move handled while the captured
\* boundaryIdx is out of range for the current GridLines leaves GridLines
\* unchanged.
C33_DragKeepsLengths ==
    [][/\ (MoveStep \/ handleMouseUp \/ dragging' # dragging) =>
             /\ Len(gridLines'.horizontal) = Len(gridLines.horizontal)
             /\ Len(gridLines'.vertical) = Len(gridLines.vertical)
       /\ (MoveStep /\ dragging # Null /\ OutOfRange(dragging[1], gridLines)) =>
             gridLines' = gridLines
      ]_vars

\* the last vertical handle of the 1x5 grid is held while the 3x3 preset is
\* on, and a pointer-move has been handled
C33_Witness ==
    /\ image # Null
    /\ started = 0
    /\ outputFormat = "webp"
    /\ quality = <<3, 5>>
    /\ upsets = 1
    /\ gridConfig = [rows |-> 3, cols |-> 3]
    /\ dragging = Some([type |-> "v", boundaryIdx |-> 5, side |-> "start"])
    /\ OutOfRange(dragging[1], gridLines)
    /\ IsDefaultBoundaries(gridLines.vertical, 3)
    /\ "mousemove" \in listeners

====
